---- MODULE Spec2Model ----
(***************************************************************************)
(* A model of src/crawler.py: the asyncio product-URL crawler.             *)
(*                                                                         *)
(* Text is modelled at character level: a Python str is a sequence of      *)
(* one-character strings, so that URL parsing (urlparse, urljoin), the     *)
(* f-string that builds a seed URL and the pattern search of               *)
(* is_product_url are computed and not assumed.                            *)
(*                                                                         *)
(* Scheduling: asyncio runs one task at a time and switches only at an     *)
(* await that really suspends (the GET, the backoff sleep, the gather).    *)
(* Every action below is the code a coroutine runs between two such        *)
(* suspensions.  New tasks start in the order of their creation (the       *)
(* event loop's ready queue is FIFO).  Which suspended task resumes next   *)
(* depends on the network and on timers, so these steps interleave freely; *)
(* this allows a few orders the ready queue excludes (a superset of the    *)
(* program's behaviours).                                                  *)
(***************************************************************************)
EXTENDS Integers, Sequences, FiniteSets, TLC

\* ------------------------------------------------------------------ text

UpperLetters ==
    <<"A","B","C","D","E","F","G","H","I","J","K","L","M",
      "N","O","P","Q","R","S","T","U","V","W","X","Y","Z">>

LowerLetters ==
    <<"a","b","c","d","e","f","g","h","i","j","k","l","m",
      "n","o","p","q","r","s","t","u","v","w","x","y","z">>

Digits == <<"0","1","2","3","4","5","6","7","8","9">>

Range(s) == { s[i] : i \in DOMAIN s }

\* str.lower() of one character
LowerChar(c) ==
    IF \E i \in DOMAIN UpperLetters : UpperLetters[i] = c
    THEN LowerLetters[CHOOSE i \in DOMAIN UpperLetters : UpperLetters[i] = c]
    ELSE c

\* str.lower()
Lower(s) == [ i \in 1..Len(s) |-> LowerChar(s[i]) ]

\* str.startswith(p)
StartsWith(s, p) == Len(s) >= Len(p) /\ SubSeq(s, 1, Len(p)) = p

\* re.search(p, s) for a pattern p made of literal characters only
Search(p, s) ==
    \E i \in 1..(Len(s) - Len(p) + 1) : SubSeq(s, i, i + Len(p) - 1) = p

\* s[from:] (1-based here)
Tail_(s, from) == SubSeq(s, from, Len(s))

\* str.find over a set of characters: the least index >= from whose character
\* is in cs, or 0 when there is none
FindAny(s, cs, from) ==
    IF \E i \in from..Len(s) : s[i] \in cs
    THEN CHOOSE i \in from..Len(s) :
            /\ s[i] \in cs
            /\ \A j \in from..(i - 1) : s[j] \notin cs
    ELSE 0

\* ------------------------------------------------------------------ urllib.parse

SchemeChars ==
    Range(UpperLetters) \cup Range(LowerLetters) \cup Range(Digits) \cup {"+", "-", "."}

\* urlsplit, third step: the path ends at the first "?" or "#" of what follows
\* the netloc; an unbalanced bracket in the netloc is the ValueError
\* ("Invalid IPv6 URL"), ok = FALSE.
SplitPath(sch, loc, after, stop) ==
    [ok     |-> ("[" \in Range(loc)) = ("]" \in Range(loc)),
     scheme |-> sch,
     netloc |-> loc,
     path   |-> IF stop = 0 THEN after ELSE SubSeq(after, 1, stop - 1),
     tail   |-> IF stop = 0 THEN <<>> ELSE Tail_(after, stop)]

\* urlsplit, second step: after "//" the netloc runs to the first "/", "?" or
\* "#" (delim: its index in rest, 0 when there is none)
SplitNetloc(sch, rest, delim) ==
    IF ~StartsWith(rest, <<"/", "/">>)
    THEN SplitPath(sch, <<>>, rest, FindAny(rest, {"?", "#"}, 1))
    ELSE IF delim = 0
    THEN SplitPath(sch, Tail_(rest, 3), <<>>, 0)
    ELSE SplitPath(sch, SubSeq(rest, 3, delim - 1), Tail_(rest, delim),
                   FindAny(Tail_(rest, delim), {"?", "#"}, 1))

\* urlsplit, first step: the text before the first ":" (colon: its index) is
\* the scheme when it starts with a letter and holds scheme characters only
SplitScheme(url, scheme, colon) ==
    IF /\ colon > 1
       /\ url[1] \in Range(UpperLetters) \cup Range(LowerLetters)
       /\ \A i \in 1..(colon - 1) : url[i] \in SchemeChars
    THEN SplitNetloc(Lower(SubSeq(url, 1, colon - 1)), Tail_(url, colon + 1),
                     FindAny(Tail_(url, colon + 1), {"/", "?", "#"}, 3))
    ELSE SplitNetloc(scheme, url, FindAny(url, {"/", "?", "#"}, 3))

\* urllib.parse.urlsplit(url, scheme), as far as scheme, netloc and path go;
\* tail is the query and fragment, kept as they are.
urlsplit(url, scheme) == SplitScheme(url, scheme, FindAny(url, {":"}, 1))

\* Schemes urljoin resolves relative references for (urllib's uses_relative,
\* restricted to those that can occur here)
UsesRelative == { <<>>, <<"h","t","t","p">>, <<"h","t","t","p","s">> }

\* The index of the last "/" of a path, 0 when it has none
LastSlash(path) ==
    IF "/" \notin Range(path) THEN 0
    ELSE CHOOSE i \in 1..Len(path) :
            path[i] = "/" /\ \A j \in (i + 1)..Len(path) : path[j] # "/"

\* urljoin once base (b) and the reference (u) are split
JoinParts(base, url, b, u, root) ==
    IF ~b.ok \/ ~u.ok THEN [ok |-> FALSE, url |-> <<>>]
    ELSE IF u.scheme # b.scheme \/ u.scheme \notin UsesRelative
         THEN [ok |-> TRUE, url |-> url]
    ELSE IF u.netloc # <<>>
         THEN [ok |-> TRUE,
               url |-> u.scheme \o <<":", "/", "/">> \o u.netloc \o u.path \o u.tail]
    ELSE IF u.path = <<>>
         THEN [ok |-> TRUE, url |-> root \o b.path \o u.tail]
    ELSE IF u.path[1] = "/"
         THEN [ok |-> TRUE, url |-> root \o u.path \o u.tail]
    ELSE IF LastSlash(b.path) = 0
         THEN [ok |-> TRUE, url |-> root \o <<"/">> \o u.path \o u.tail]
    ELSE [ok |-> TRUE,
          url |-> root \o SubSeq(b.path, 1, LastSlash(b.path)) \o u.path \o u.tail]

\* urljoin with base split
JoinBase(base, url, b) ==
    JoinParts(base, url, b, urlsplit(url, b.scheme),
              b.scheme \o <<":", "/", "/">> \o b.netloc)

\* urllib.parse.urljoin(base, url) for absolute references, references with a
\* netloc, empty references and references whose path starts at the root or is
\* one plain segment.  ok = FALSE is the ValueError of urlsplit.
urljoin(base, url) ==
    IF base = <<>> THEN [ok |-> TRUE, url |-> url]
    ELSE IF url = <<>> THEN [ok |-> TRUE, url |-> base]
    ELSE JoinBase(base, url, urlsplit(base, <<>>))

\* ------------------------------------------------------------------ Crawler, pure parts

\* Crawler.__init__: self.max_retries
max_retries == 5

\* Crawler.crawl_url: a batch is awaited once len(tasks) > 10
batch_limit == 10

\* Crawler.get_domain: urlparse(url).netloc (ok = FALSE: urlparse raises)
get_domain(url) ==
    [ok |-> urlsplit(url, <<>>).ok, netloc |-> urlsplit(url, <<>>).netloc]

\* The html text of a page is a sequence of elements; an element is an anchor
\* with an href attribute, an anchor without one, or other content.  The empty
\* sequence is the empty string.
Anchor(href) == [tag |-> "a", has_href |-> TRUE, href |-> href]
BareAnchor   == [tag |-> "a", has_href |-> FALSE, href |-> <<>>]
Text         == [tag |-> "p", has_href |-> FALSE, href |-> <<>>]

\* extract_urls line 49: url.startswith(('http://', 'https://'))
IsHttp(url) ==
    \/ StartsWith(url, <<"h","t","t","p",":","/","/">>)
    \/ StartsWith(url, <<"h","t","t","p","s",":","/","/">>)

\* extract_urls line 47: the href of every anchor that has one
Hrefs(html) ==
    { html[i].href : i \in { j \in DOMAIN html : html[j].tag = "a" /\ html[j].has_href } }

\* extract_urls lines 48-50 over the joined references
Collect(joined) ==
    [ok   |-> \A j \in joined : j.ok,
     urls |-> { j.url : j \in { k \in joined : k.ok /\ IsHttp(k.url) } }]

\* Crawler.extract_urls(html, base_url): ok = FALSE when urljoin raises
extract_urls(html, base_url) ==
    Collect({ urljoin(base_url, h) : h \in Hrefs(html) })

\* Crawler.is_product_url: the patterns
patterns ==
    << <<"/","p","r","o","d","u","c","t">>,
       <<"/","p","r","o","d","u","c","t","s">>,
       <<"/","c","o","l","l","e","c","t","i","o","n","s">>,
       <<"/","i","t","e","m","s">> >>

\* Crawler.is_product_url
is_product_url(url) ==
    \E i \in DOMAIN patterns : Search(patterns[i], Lower(url))

\* main: url = f'https://{domain}'
seed_url(domain) == <<"h","t","t","p","s",":","/","/">> \o domain

\* `if not html`: None and the empty string are both falsy
Falsy(r) == r.none \/ r.text = <<>>

\* ------------------------------------------------------------------ the web the crawler runs against

\* Number of listing pages /p1 .. /pN of the first site
NumPages == 1

\* Number of links on the page /w of the wide site: one more than a full batch
NumLinks == 12

\* Number of URLs of the long site: the seed and the pages /n1, /n2, ...,
\* each linking to the next
ChainLen == 100

DomA == <<"a",".","c","o">>
DomB == <<"b",".","c","o">>
DomC == <<"c",".","c","o">>
DomD == <<"d",".","c","o">>

PagePath(i) == <<"/","p", Digits[i + 1]>>

\* i in decimal digits
RECURSIVE Decimal(_)
Decimal(i) ==
    IF i < 10 THEN << Digits[i + 1] >>
    ELSE Decimal(i \div 10) \o << Digits[(i % 10) + 1] >>

ChainPath(i) == <<"/","n">> \o Decimal(i)

\* What a GET of a URL can do: the outcomes the server can produce for it
\* (outcomes), those an unreliable host adds (faults), and the text a 200
\* response carries.
\*   "ok"      status 200 and response.text() returns the text
\*   "empty"   status 200 and response.text() returns the empty string
\*   "status"  a status other than 200
\*   "err"     session.get raises a transport error
\*   "timeout" session.get raises asyncio.TimeoutError
\*   "bodyerr" status 200 and response.text() raises (payload or decode error)
Site(url) ==
    IF url = seed_url(DomA) THEN
        [outcomes |-> {"ok", "status"}, faults |-> {"err"},
         text |-> << Text, BareAnchor,
                     Anchor(PagePath(1)),
                     Anchor(<<"/","I","t","e","m","s">>),
                     Anchor(<<"h","t","t","p","s",":","/","/","s",".","a",".","c","o","/">>),
                     Anchor(seed_url(DomB) \o <<"/","q">>),
                     Anchor(<<"m","a","i","l","t","o",":","x">>),
                     Anchor(<<>>) >>]
    ELSE IF \E i \in 1..NumPages : url = seed_url(DomA) \o PagePath(i) THEN
        LET i == CHOOSE j \in 1..NumPages : url = seed_url(DomA) \o PagePath(j)
        IN  [outcomes |-> {"ok"}, faults |-> {},
             text |-> << Anchor(<<"H","T","T","P","S",":","/","/">> \o DomA),
                         Anchor(<<"p", Digits[(i % NumPages) + 2]>>) >>
                      \o (IF i = NumPages
                          THEN << Anchor(<<"/","I","t","e","m","s">>) >>
                          ELSE << >>)]
    ELSE IF url = seed_url(DomA) \o <<"/","I","t","e","m","s">> THEN
        [outcomes |-> {"ok", "bodyerr"}, faults |-> {}, text |-> << Text >>]
    ELSE IF url = seed_url(DomB) THEN
        [outcomes |-> {"ok"}, faults |-> {"timeout"},
         text |-> << Anchor(<<"/","q">>),
                     Anchor(<<"/","p","r","o","d","u","c","t","s">>),
                     Anchor(seed_url(DomA) \o <<"/","I","t","e","m","s">>) >>]
    ELSE IF url = seed_url(DomB) \o <<"/","q">> THEN
        [outcomes |-> {"ok", "status"}, faults |-> {},
         text |-> << Text, Anchor(<<"h","t","t","p",":","/","/","[">>) >>]
    ELSE IF url = seed_url(DomB) \o <<"/","p","r","o","d","u","c","t","s">> THEN
        [outcomes |-> {"ok", "status", "empty"}, faults |-> {}, text |-> << Text >>]
    ELSE IF url = seed_url(DomC) THEN
        [outcomes |-> {"ok"}, faults |-> {}, text |-> << Anchor(<<"/","w">>) >>]
    ELSE IF url = seed_url(DomC) \o <<"/","w">> THEN
        [outcomes |-> {"ok"}, faults |-> {},
         text |-> [i \in 1..NumLinks |-> Anchor(<<"k", LowerLetters[i]>>)]]
    ELSE IF url = seed_url(DomD) THEN
        [outcomes |-> {"ok"}, faults |-> {}, text |-> << Anchor(ChainPath(1)) >>]
    ELSE IF \E i \in 1..(ChainLen - 1) : url = seed_url(DomD) \o ChainPath(i) THEN
        LET i == CHOOSE j \in 1..(ChainLen - 1) : url = seed_url(DomD) \o ChainPath(j)
        IN  [outcomes |-> {"ok"}, faults |-> {},
             text |-> IF i < ChainLen - 1
                      THEN << Anchor(<<"n">> \o Decimal(i + 1)) >>
                      ELSE << Text >>]
    ELSE
        [outcomes |-> {"status"}, faults |-> {}, text |-> <<>>]

\* The seed list handed to main: two shops
Domains == << DomA, DomB >>

\* Another seed list: the wide site, listed twice
Wide == << DomC, DomC >>

\* Another seed list: the long site
Long == << DomD >>

\* The seed lists of the runs
DomainLists == { Domains, Wide, Long }

\* Every seed domain of some run
AllDomains == UNION { Range(l) : l \in DomainLists }

\* The runs of the two shops differ in which host is unreliable
Flaky == { {seed_url(DomA)}, {seed_url(DomB)} }

\* A same-domain test that accepts every host ending in the domain
\* (netloc.endswith(domain)), sub-domains included
SameDomain_Suffix(url, domain) ==
    /\ get_domain(url).ok
    /\ Len(get_domain(url).netloc) >= Len(domain)
    /\ Tail_(get_domain(url).netloc, Len(get_domain(url).netloc) - Len(domain) + 1) = domain

\* A crawl that keeps every link, whatever its host
SameDomain_Any(url, domain) == get_domain(url).ok

\* crawl_url line 110: the links kept for this domain's crawl
SameDomain(url, domain) ==
    get_domain(url).ok /\ get_domain(url).netloc = domain

\* The URLs the pages of S link to
LinkedFrom(S) == UNION { extract_urls(Site(u).text, u).urls : u \in S }

\* S with everything linked, directly or not, from the pages of F
RECURSIVE Closure(_, _)
Closure(S, F) ==
    IF F \subseteq S THEN S ELSE Closure(S \cup F, LinkedFrom(F \ S))

\* Every URL a run can meet: the seeds and whatever the pages link to
Universe == Closure({}, { seed_url(d) : d \in AllDomains })

\* The functions of the crawler and the site over these URLs, computed once:
\* Page[u] is Site(u), Links[u] is extract_urls(text of u, u), Netloc[u] is
\* get_domain(u), Product[u] is is_product_url(u), Same[u][d] is line 110's
\* test of u for domain d.
Page    == [u \in Universe |-> Site(u)]
Links   == [u \in Universe |-> extract_urls(Site(u).text, u)]
Netloc  == [u \in Universe |-> get_domain(u)]
Product == [u \in Universe |-> is_product_url(u)]
Same    == [u \in Universe |-> [d \in AllDomains |-> SameDomain(u, d)]]

\* ------------------------------------------------------------------ state

VARIABLES
    domains,             \* the seed list main was called with (never changes)
    flaky,               \* the URLs whose host is unreliable in this run (never changes)
    mainpc,              \* where main is: "init", "gather", "done", "crashed"
    session,             \* Crawler.session: "none", "open", "closed"
    tasks,               \* the asyncio tasks running crawl_url, by creation order
    visited_urls,        \* Crawler.visited_urls
    product_urls,        \* Crawler.product_urls (a defaultdict: keys appear on first use)
    failed_urls,         \* Crawler.failed_urls
    total_urls_crawled,  \* Crawler.total_urls_crawled
    progress,            \* the "Crawled n URLs" log lines, in order
    results              \* what save_results wrote: written = FALSE before it runs

vars == << domains, flaky, mainpc, session, tasks, visited_urls, product_urls, failed_urls,
           total_urls_crawled, progress, results >>

\* States of a task in which it has finished
Final == {"done", "raised", "cancelled"}

\* asyncio.create_task(self.crawl_url(url, domain)): the task has not run yet.
\*   parent   the task that created it (0: main)
\*   pc       "new", "get" (awaiting session.get), "sleep" (awaiting
\*            asyncio.sleep), "join" (awaiting asyncio.gather), or a Final state
\*   claimed  the task passed the visited check and called fetch_html
\*   attempt  fetch_html's loop variable
\*   hist     the outcome of each GET attempt so far
\*   delays   the argument of each asyncio.sleep so far
\*   fails    how often this task ran `self.failed_urls += 1`
\*   fetched  fetch_html has returned
\*   none     it returned None (otherwise the text read, Body(url, last outcome))
\*   kids     the tasks of the batch being gathered
\*   todo     the URLs the for loop has not reached yet
\*   spawned  every task this one created
NewTask(url, domain, parent) ==
    [url |-> url, domain |-> domain, parent |-> parent, pc |-> "new",
     claimed |-> FALSE, attempt |-> 0, hist |-> <<>>, delays |-> <<>>, fails |-> 0,
     fetched |-> FALSE, none |-> TRUE,
     kids |-> {}, todo |-> {}, spawned |-> {}]

\* Crawler.__init__, before main has run a step
Init ==
    /\ domains \in DomainLists
    /\ flaky \in (IF domains = Domains THEN Flaky ELSE { {} })
    /\ mainpc = "init"
    /\ session = "none"
    /\ tasks = <<>>
    /\ visited_urls = {}
    /\ product_urls = [d \in {} |-> {}]
    /\ failed_urls = 0
    /\ total_urls_crawled = 0
    /\ progress = <<>>
    /\ results = [written |-> FALSE, products |-> [d \in {} |-> <<>>], failed_urls |-> 0]

\* ------------------------------------------------------------------ helpers of the actions

\* A set as a sequence, in one fixed order (used to number new tasks)
RECURSIVE SetToSeq(_)
SetToSeq(S) ==
    IF S = {} THEN <<>>
    ELSE LET x == CHOOSE y \in S : TRUE IN <<x>> \o SetToSeq(S \ {x})

\* Every order list(urls) can produce
Orders(S) ==
    { q \in [1..Cardinality(S) -> S] : \A i, j \in DOMAIN q : i # j => q[i] # q[j] }

\* A crawl_url without the visited check of lines 87-88
AlreadyVisited_Never(url, visited) == FALSE

\* crawl_url line 87: `url in self.visited_urls`
AlreadyVisited(url, visited) == url \in visited

\* An off-by-one in the last-attempt test (attempt == self.max_retries - 2)
LastAttempt_OffByOne(attempt) == attempt = max_retries - 2

\* fetch_html line 73: the attempt that just failed was the last one
LastAttempt(attempt) == attempt = max_retries - 1

\* A backoff that doubles: asyncio.sleep(2 ** attempt)
Backoff_Doubling(attempt) == 2 ^ attempt

\* fetch_html line 76: the argument of asyncio.sleep
Backoff(attempt) == attempt + 1

\* An assignment in place of the add: self.product_urls = {domain: {url}}
AddProduct_Overwrite(prods, domain, url) == [d \in {domain} |-> {url}]

\* self.product_urls[domain].add(url)
AddProduct(prods, domain, url) ==
    [d \in DOMAIN prods \cup {domain} |->
        IF d = domain
        THEN (IF d \in DOMAIN prods THEN prods[d] ELSE {}) \cup {url}
        ELSE prods[d]]

\* The tasks the for loop creates for the URLs `new`, in creation order
Created(new, domain, parent) ==
    [i \in 1..Len(new) |-> NewTask(new[i], domain, parent)]

\* crawl_url lines 113-122, from the for loop's current position to its next
\* await: the loop creates tasks for the URLs of `batch` in this order (all
\* that are left, or batch_limit + 1 of them when more are left), and then
\* awaits the gather of these tasks; with nothing left and no task created the
\* coroutine returns.
Spawn(t, me, batch, rest) ==
    IF batch = <<>>
    THEN tasks' = [tasks EXCEPT ![t] = [me EXCEPT !.pc = "done", !.kids = {}, !.todo = {}]]
    ELSE tasks' =
           [tasks EXCEPT ![t] =
               [me EXCEPT !.pc = "join",
                          !.kids = (Len(tasks) + 1)..(Len(tasks) + Len(batch)),
                          !.todo = rest,
                          !.spawned = @ \cup (Len(tasks) + 1)..(Len(tasks) + Len(batch))]]
           \o Created(batch, me.domain, t)

\* A for loop without the gather of lines 116-118: every task is created
\* before the first await
Batches_NoBarrier(left) == {left}

\* The batches the for loop can form from the URLs it has not reached: the
\* iteration order of a set is arbitrary.
Batches(left) ==
    IF Cardinality(left) <= batch_limit + 1 THEN {left}
    ELSE { b \in SUBSET left : Cardinality(b) = batch_limit + 1 }

\* The pages that link to u, computed once
LinkedBy == [u \in Universe |-> { w \in Universe : u \in Links[w].urls }]

\* The pages of S cannot be told apart: they are served alike (the same
\* answers, the same text, the same links, the same classification) and the
\* same pages link to them
Alike(S) ==
    \A u, v \in S :
        /\ Page[u] = Page[v] /\ Links[u] = Links[v] /\ Product[u] = Product[v]
        /\ LinkedBy[u] = LinkedBy[v]

\* The URLs the for loop can meet before its next await, in the order it
\* meets them: the URLs of any batch in any order.  When the pages of `left`
\* cannot be told apart, one choice stands for all.
CreationOrders(left) ==
    IF Alike(left)
    THEN { SubSeq(SetToSeq(left), 1, Cardinality(b)) : b \in Batches(left) }
    ELSE UNION { Orders(b) : b \in Batches(left) }

\* crawl_url lines 113-122 for the URLs `left` the for loop has not reached
Loop(t, me, left) ==
    \E q \in CreationOrders(left) : Spawn(t, me, q, left \ Range(q))

\* crawl_url lines 110-122 for the extracted urls: the same-domain ones not
\* yet visited are the for loop's URLs
Schedule(t, me, front) == Loop(t, me, front)

\* crawl_url lines 108-122: ex is what extract_urls returned or raised
Expand(t, me, ex) ==
    IF ~ex.ok \/ \E u \in ex.urls : ~Netloc[u].ok
    THEN tasks' = [tasks EXCEPT ![t] = [me EXCEPT !.pc = "raised"]]
    ELSE Schedule(t, me, { u \in ex.urls : Same[u][me.domain] } \ visited_urls)

\* crawl_url lines 100-122 once fetch_html has returned r to task t
\* (me: the task's record with the fetch recorded; a text that is not empty
\* is the text of me.url, so that Links[me.url] is extract_urls(r.text, me.url))
Continue(t, me, r) ==
    IF Falsy(r)
    THEN /\ tasks' = [tasks EXCEPT ![t] = [me EXCEPT !.pc = "done"]]
         /\ UNCHANGED product_urls
    ELSE /\ product_urls' = IF Product[me.url]
                            THEN AddProduct(product_urls, me.domain, me.url)
                            ELSE product_urls
         /\ Expand(t, me, Links[me.url])

\* ------------------------------------------------------------------ fetch_html

\* The outcomes one GET attempt for url can have in this run
GetOutcomes(url) ==
    Page[url].outcomes \cup (IF url \in flaky THEN Page[url].faults ELSE {})

\* A fetch_html that raises for a status other than 200
\* (response.raise_for_status()), so that the except clause retries it
Classify_RaiseForStatus(o) ==
    IF o \in {"ok", "empty"} THEN "text" ELSE "except"

\* A fetch_html that reads the body outside the retry loop's try and gives up
\* with None when the read fails
Classify_ReadFailureIsNone(o) ==
    IF o \in {"ok", "empty"} THEN "text"
    ELSE IF o \in {"status", "bodyerr"} THEN "none"
    ELSE "except"

\* What fetch_html does with the outcome of one GET attempt:
\*   "text"    status 200 and the text was read: return it (lines 68-69)
\*   "none"    another status: return None (line 70)
\*   "except"  session.get or response.text() raised inside the try: the
\*             except clause (lines 71-76)
Classify(o) ==
    IF o \in {"ok", "empty"} THEN "text"
    ELSE IF o = "status" THEN "none"
    ELSE "except"

\* fetch_html line 69: what response.text() returned for outcome o
Body(url, o) == IF o = "empty" THEN <<>> ELSE Page[url].text

\* A fetch_html that counts every failed attempt (the increment outside the if)
CountFailure_EveryAttempt(attempt, n) == n + 1

\* fetch_html lines 73-74: failed_urls after the except clause ran for `attempt`
CountFailure(attempt, n) == IF LastAttempt(attempt) THEN n + 1 ELSE n

\* ------------------------------------------------------------------ actions

\* The event loop runs the first step of tasks in the order of their creation
\* (create_task appends the step to the loop's FIFO ready queue): task t can
\* start once every task created before it has started.
CanStart(t) ==
    /\ tasks[t].pc = "new"
    /\ \A s \in 1..(t - 1) : tasks[s].pc # "new"

\* A gather that resumes its awaiter as soon as one task returned
GatherDone_Any(kids) == \E k \in kids : tasks[k].pc = "done"

\* asyncio.gather(*tasks) returns: every task of the gather returned
GatherDone(kids) == \A k \in kids : tasks[k].pc = "done"

\* A progress line for every URL
LogDue_EveryUrl(n) == TRUE

\* crawl_url line 95: the counter has reached a multiple of 100
LogDue(n) == n % 100 = 0

\* main lines 137-145: the session is created, one task per domain is
\* created, and main awaits their gather.
MainStart ==
    /\ mainpc = "init"
    /\ session' = "open"
    /\ tasks' = [i \in 1..Len(domains) |-> NewTask(seed_url(domains[i]), domains[i], 0)]
    /\ mainpc' = "gather"
    /\ UNCHANGED << domains, flaky, visited_urls, product_urls, failed_urls, total_urls_crawled,
                    progress, results >>

\* crawl_url lines 87-88: the task's first step finds its URL visited.
Skip(t) ==
    /\ CanStart(t)
    /\ AlreadyVisited(tasks[t].url, visited_urls)
    /\ tasks' = [tasks EXCEPT ![t].pc = "done"]
    /\ UNCHANGED << domains, flaky, mainpc, session, visited_urls, product_urls, failed_urls,
                    total_urls_crawled, progress, results >>

\* crawl_url lines 87-99 and fetch_html up to the first GET: the task's first
\* step claims its URL and issues attempt 0.
Claim(t) ==
    /\ CanStart(t)
    /\ ~AlreadyVisited(tasks[t].url, visited_urls)
    /\ visited_urls' = visited_urls \cup {tasks[t].url}
    /\ total_urls_crawled' = total_urls_crawled + 1
    /\ progress' = IF LogDue(total_urls_crawled')
                   THEN Append(progress, total_urls_crawled')
                   ELSE progress
    /\ tasks' = [tasks EXCEPT ![t].pc = "get", ![t].claimed = TRUE, ![t].attempt = 0]
    /\ UNCHANGED << domains, flaky, mainpc, session, product_urls, failed_urls, results >>

\* fetch_html lines 67-69, then crawl_url lines 100-122 up to its next await:
\* the GET answers 200 and the text is read.
ReturnText(t, o) ==
    /\ tasks[t].pc = "get"
    /\ o \in GetOutcomes(tasks[t].url)
    /\ Classify(o) = "text"
    /\ Continue(t, [tasks[t] EXCEPT !.hist = Append(@, o), !.fetched = TRUE, !.none = FALSE],
                 [none |-> FALSE, text |-> Body(tasks[t].url, o)])
    /\ UNCHANGED << domains, flaky, mainpc, session, visited_urls, failed_urls, total_urls_crawled,
                    progress, results >>

\* fetch_html lines 67-70, then crawl_url lines 100-101: the GET answers
\* another status.
ReturnNone(t, o) ==
    /\ tasks[t].pc = "get"
    /\ o \in GetOutcomes(tasks[t].url)
    /\ Classify(o) = "none"
    /\ Continue(t, [tasks[t] EXCEPT !.hist = Append(@, o), !.fetched = TRUE],
                 [none |-> TRUE, text |-> <<>>])
    /\ UNCHANGED << domains, flaky, mainpc, session, visited_urls, failed_urls, total_urls_crawled,
                    progress, results >>

\* fetch_html lines 71-76: the attempt raised.  On the last attempt the failure
\* is counted and fetch_html returns None (then crawl_url lines 100-101);
\* otherwise the task sleeps attempt + 1.
Except(t, o) ==
    /\ tasks[t].pc = "get"
    /\ o \in GetOutcomes(tasks[t].url)
    /\ Classify(o) = "except"
    /\ failed_urls' = CountFailure(tasks[t].attempt, failed_urls)
    /\ IF LastAttempt(tasks[t].attempt)
       THEN Continue(t, [tasks[t] EXCEPT !.hist = Append(@, o), !.fetched = TRUE,
                                         !.fails = @ + (failed_urls' - failed_urls)],
                     [none |-> TRUE, text |-> <<>>])
       ELSE /\ tasks' = [tasks EXCEPT ![t] =
                   [@ EXCEPT !.hist = Append(@, o),
                             !.fails = @ + (failed_urls' - failed_urls),
                             !.pc = "sleep",
                             !.delays = Append(@, Backoff(tasks[t].attempt))]]
            /\ UNCHANGED product_urls
    /\ UNCHANGED << domains, flaky, mainpc, session, visited_urls, total_urls_crawled, progress, results >>

\* fetch_html lines 76, 65-67: the sleep is over, the next attempt is issued.
Wake(t) ==
    /\ tasks[t].pc = "sleep"
    /\ tasks' = [tasks EXCEPT ![t].pc = "get", ![t].attempt = @ + 1]
    /\ UNCHANGED << domains, flaky, mainpc, session, visited_urls, product_urls, failed_urls,
                    total_urls_crawled, progress, results >>

\* crawl_url lines 117-122: every task of the gathered batch returned; the for
\* loop goes on to its next await, or the coroutine returns.
JoinDone(t) ==
    /\ tasks[t].pc = "join"
    /\ GatherDone(tasks[t].kids)
    /\ Loop(t, tasks[t], tasks[t].todo)
    /\ UNCHANGED << domains, flaky, mainpc, session, visited_urls, product_urls, failed_urls,
                    total_urls_crawled, progress, results >>

\* crawl_url lines 117, 122: a task of the gathered batch raised; gather hands
\* the exception to the awaiting coroutine, which does not catch it.  The other
\* tasks of the batch keep running.
JoinRaise(t) ==
    /\ tasks[t].pc = "join"
    /\ \E k \in tasks[t].kids : tasks[k].pc = "raised"
    /\ tasks' = [tasks EXCEPT ![t].pc = "raised"]
    /\ UNCHANGED << domains, flaky, mainpc, session, visited_urls, product_urls, failed_urls,
                    total_urls_crawled, progress, results >>

\* The tasks main created
TopTasks == { t \in DOMAIN tasks : tasks[t].parent = 0 }

\* main lines 145-146: every top-level task returned; the session is closed.
MainClose ==
    /\ mainpc = "gather"
    /\ GatherDone(TopTasks)
    /\ session' = "closed"
    /\ mainpc' = "save"
    /\ UNCHANGED << domains, flaky, tasks, visited_urls, product_urls, failed_urls, total_urls_crawled,
                    progress, results >>

\* A report with an entry for every seed domain, empty for a domain without
\* product URLs
Listings_EverySeed(prods) ==
    { [d \in DOMAIN prods \cup Range(domains) |->
          IF d \in DOMAIN prods THEN SetToSeq(prods[d]) ELSE <<>>] }

\* save_results lines 127-128: results['products'] gets one entry per entry of
\* product_urls, list(urls) in any order
Listings(prods) ==
    { p \in [DOMAIN prods -> UNION { Orders(prods[d]) : d \in DOMAIN prods }] :
          \A d \in DOMAIN prods : p[d] \in Orders(prods[d]) }

\* main line 147, save_results: the report is built and written.
MainSave ==
    /\ mainpc = "save"
    /\ \E p \in Listings(product_urls) :
          results' = [written |-> TRUE, products |-> p, failed_urls |-> failed_urls]
    /\ mainpc' = "done"
    /\ UNCHANGED << domains, flaky, session, tasks, visited_urls, product_urls, failed_urls,
                    total_urls_crawled, progress >>

\* main line 145 and asyncio.run (line 162): a top-level task raised, gather
\* raises in main, main ends with that exception, and asyncio.run cancels
\* every task that has not finished before it re-raises.  Lines 146-147 never
\* run.  (CancelledError is not an Exception, so fetch_html does not catch it.)
MainCrash ==
    /\ mainpc = "gather"
    /\ \E t \in TopTasks : tasks[t].pc = "raised"
    /\ mainpc' = "crashed"
    /\ tasks' = [t \in DOMAIN tasks |->
                    IF tasks[t].pc \in Final THEN tasks[t]
                    ELSE [tasks[t] EXCEPT !.pc = "cancelled"]]
    /\ UNCHANGED << domains, flaky, session, visited_urls, product_urls, failed_urls, total_urls_crawled,
                    progress, results >>

Outcomes == {"ok", "empty", "status", "err", "timeout", "bodyerr"}

Next ==
    \/ MainStart
    \/ \E t \in DOMAIN tasks : Skip(t)
    \/ \E t \in DOMAIN tasks : Claim(t)
    \/ \E t \in DOMAIN tasks, o \in Outcomes : ReturnText(t, o)
    \/ \E t \in DOMAIN tasks, o \in Outcomes : ReturnNone(t, o)
    \/ \E t \in DOMAIN tasks, o \in Outcomes : Except(t, o)
    \/ \E t \in DOMAIN tasks : Wake(t)
    \/ \E t \in DOMAIN tasks : JoinDone(t)
    \/ \E t \in DOMAIN tasks : JoinRaise(t)
    \/ MainClose
    \/ MainSave
    \/ MainCrash

Spec == Init /\ [][Next]_vars

\* The event loop runs every task that can run, every GET ends (with a
\* response, an error or the timeout) and every sleep ends.
FairSpec == Spec /\ WF_vars(Next)

\* ------------------------------------------------------------------ properties

\* The tasks that called fetch_html for url
Fetchers(url) == { t \in DOMAIN tasks : tasks[t].url = url /\ tasks[t].claimed }

\* The tasks for url that have run their first step (lines 87-99)
Started(url) ==
    { t \in DOMAIN tasks : /\ tasks[t].url = url
                           /\ (tasks[t].claimed \/ tasks[t].pc = "done") }

\* C1: fetch_html is invoked at most once for every URL in the whole run, and
\* as soon as any task for a URL has run its first step exactly one task for
\* that URL has gone on to fetch it (and the URL is in visited_urls).
C1_FetchedAtMostOnce ==
    \A u \in { tasks[t].url : t \in DOMAIN tasks } :
        /\ Cardinality(Fetchers(u)) <= 1
        /\ Started(u) # {} => Cardinality(Fetchers(u)) = 1 /\ u \in visited_urls

\* C1 witness: two tasks created by different parents for one URL have both
\* run; one fetched it, the other returned at once.
C1_Witness ==
    \E t1, t2 \in DOMAIN tasks :
        /\ t1 # t2
        /\ tasks[t1].url = tasks[t2].url
        /\ tasks[t1].parent # tasks[t2].parent
        /\ tasks[t1].claimed /\ tasks[t1].hist # <<>>
        /\ tasks[t2].pc = "done" /\ ~tasks[t2].claimed

\* C2: every URL a domain's crawl passes to fetch_html has a netloc exactly
\* equal to that domain; a link to another host, a sub-domain of the seed
\* domain included, is never fetched by that crawl.
C2_DomainContainment ==
    \A t \in DOMAIN tasks :
        tasks[t].claimed =>
            /\ Netloc[tasks[t].url].ok
            /\ Netloc[tasks[t].url].netloc = tasks[t].domain

SubDomainUrl == <<"h","t","t","p","s",":","/","/","s",".","a",".","c","o","/">>

\* C2 witness: the first seed page, which links to a sub-domain and to the
\* other domain, was fetched and all its children have returned; the
\* sub-domain link was extracted but never visited.
C2_Witness ==
    \E t \in DOMAIN tasks :
        /\ tasks[t].url = seed_url(DomA)
        /\ tasks[t].fetched /\ ~tasks[t].none
        /\ tasks[t].pc = "done" /\ tasks[t].spawned # {}
        /\ SubDomainUrl \in Links[tasks[t].url].urls
        /\ seed_url(DomB) \o <<"/","q">>
              \in Links[tasks[t].url].urls
        /\ SubDomainUrl \notin visited_urls

\* The tasks that fetched the text of url and went on to extract its links
Expanders(url) ==
    { t \in DOMAIN tasks : tasks[t].url = url /\ tasks[t].fetched /\ ~tasks[t].none }

NoUrlExpandedTwice ==
    \A u \in { tasks[t].url : t \in DOMAIN tasks } : Cardinality(Expanders(u)) <= 1

\* Every task main created has finished: it returned, raised, or was cancelled
\* when asyncio.run shut the loop down
TopTasksFinished ==
    mainpc # "init" /\ \A t \in TopTasks : tasks[t].pc \in Final

\* C3: whatever the GET attempts answer, and although the pages link in
\* cycles and to themselves, every top-level crawl task eventually finishes
\* for good, and no URL is ever expanded more than once.
C3_Termination == []NoUrlExpandedTwice /\ <>[]TopTasksFinished

\* C3 witness: the run ended normally after a listing page, which links back
\* to the seed and on to the first listing page again, was expanded.
C3_Witness ==
    /\ mainpc = "done"
    /\ \E t \in DOMAIN tasks :
          /\ tasks[t].url = seed_url(DomA) \o PagePath(NumPages)
          /\ tasks[t].pc = "done"
          /\ Expanders(tasks[t].url) = {t}
          /\ {seed_url(DomA), seed_url(DomA) \o PagePath(1)}
                \subseteq Links[tasks[t].url].urls

\* The outcomes of a GET attempt that raise in session.get
TransportErrors == {"err", "timeout"}

\* The outcomes of a GET attempt that raise inside fetch_html's try
Raising == {"err", "timeout", "bodyerr"}

\* The fetch of task t used up every attempt
Exhausted(t) ==
    /\ Len(tasks[t].hist) = max_retries
    /\ \A i \in 1..max_retries : tasks[t].hist[i] \in Raising

\* main has ended: after save_results, or with the exception of a task
RunEnded == mainpc \in {"done", "crashed"}

\* C4: when the run has ended and the seed fetch of one domain failed
\* terminally, the report has been written, every other domain's top-level
\* task has returned, and the report lists the product URLs of those domains.
C4_FailureIsolation ==
    \A t \in TopTasks :
        (RunEnded /\ Exhausted(t)) =>
            /\ results.written
            /\ \A o \in TopTasks \ {t} :
                  /\ tasks[o].pc = "done"
                  /\ tasks[o].domain \in DOMAIN product_urls =>
                        /\ tasks[o].domain \in DOMAIN results.products
                        /\ Range(results.products[tasks[o].domain])
                              = product_urls[tasks[o].domain]

\* Task t itself raised: the links of its own page could not be extracted
OwnPageRaises(t) ==
    /\ tasks[t].fetched /\ ~tasks[t].none
    /\ ~Links[tasks[t].url].ok

\* C5: an exception raised while one page is processed ends only that page's
\* task: no other task ends with an exception, no task is cancelled, and main
\* does not end with the exception.
C5_ExceptionIsolation ==
    /\ mainpc # "crashed"
    /\ \A t \in DOMAIN tasks :
          /\ tasks[t].pc # "cancelled"
          /\ tasks[t].pc = "raised" => OwnPageRaises(t)

\* C6: a fetch whose first k attempts raised a transport error (a timeout
\* included) and whose next attempt answered 200 made k + 1 attempts with
\* k < max_retries, returned the text (the task went on with the links of
\* that text) and did not count a failure.
C6_RetrySuccess ==
    \A t \in DOMAIN tasks :
        \A k \in 0..(Len(tasks[t].hist) - 1) :
            (/\ tasks[t].hist[k + 1] = "ok"
             /\ \A i \in 1..k : tasks[t].hist[i] \in TransportErrors) =>
                /\ k < max_retries
                /\ Len(tasks[t].hist) = k + 1
                /\ tasks[t].attempt = k
                /\ tasks[t].delays = [i \in 1..k |-> i]
                /\ tasks[t].pc \notin {"new", "get", "sleep"}
                /\ tasks[t].fetched /\ ~tasks[t].none
                /\ tasks[t].fails = 0
                /\ \A c \in tasks[t].spawned :
                      tasks[c].url \in
                          Links[tasks[t].url].urls

\* C6 witness: a fetch timed out max_retries - 1 times, then got 200, and its
\* task returned.
C6_Witness ==
    \E t \in DOMAIN tasks :
        /\ Len(tasks[t].hist) = max_retries
        /\ \A i \in 1..(max_retries - 1) : tasks[t].hist[i] = "timeout"
        /\ tasks[t].hist[max_retries] = "ok"
        /\ tasks[t].pc = "done"
        /\ tasks[t].spawned # {}

\* C7: failed_urls is the number of URLs whose fetch used up its attempts; such
\* a fetch made exactly max_retries attempts, counted one failure and returned
\* None (its task returned without a child); no other fetch counted a failure
\* and no fetch made more than max_retries attempts.
C7_FailureCounter ==
    /\ failed_urls = Cardinality({ tasks[t].url : t \in { x \in DOMAIN tasks : Exhausted(x) } })
    /\ \A t \in DOMAIN tasks :
          /\ Len(tasks[t].hist) <= max_retries
          /\ Exhausted(t) =>
                /\ tasks[t].fails = 1
                /\ tasks[t].fetched /\ tasks[t].none
                /\ tasks[t].pc = "done"
                /\ tasks[t].spawned = {}
          /\ ~Exhausted(t) => tasks[t].fails = 0

\* C7 witness: two URLs failed terminally.
C7_Witness ==
    /\ failed_urls = 2
    /\ \E t1, t2 \in DOMAIN tasks :
          t1 # t2 /\ Exhausted(t1) /\ Exhausted(t2)

\* C8: an attempt that answered a status other than 200 was the fetch's last:
\* fetch_html returned None with no sleep after it and no failure counted, and
\* the task returned without recording the URL and without creating a task.
C8_NonSuccessStatus ==
    \A t \in DOMAIN tasks :
        \A i \in 1..Len(tasks[t].hist) :
            tasks[t].hist[i] = "status" =>
                /\ i = Len(tasks[t].hist)
                /\ Len(tasks[t].delays) = i - 1
                /\ tasks[t].fetched /\ tasks[t].none
                /\ tasks[t].pc = "done"
                /\ tasks[t].fails = 0
                /\ tasks[t].spawned = {}
                /\ \A d \in DOMAIN product_urls : tasks[t].url \notin product_urls[d]

\* C8 witness: a URL that matches a product pattern answered a status other
\* than 200, and another fetch got such a status after two failed attempts.
C8_Witness ==
    /\ \E t \in DOMAIN tasks :
          /\ Product[tasks[t].url]
          /\ tasks[t].hist = <<"status">>
    /\ \E t \in DOMAIN tasks :
          /\ Len(tasks[t].hist) = 3
          /\ tasks[t].hist[3] = "status"

\* C9 as claimed: an attempt that received status 200 is the fetch's last,
\* also when reading the body failed.
C9_NoAttemptAfter200 ==
    \A t \in DOMAIN tasks :
        \A i \in 1..Len(tasks[t].hist) :
            tasks[t].hist[i] \in {"ok", "empty", "bodyerr"} =>
                /\ i = Len(tasks[t].hist)
                /\ tasks[t].pc \notin {"get", "sleep"}

\* C9 as amended: an attempt that received status 200 and read the text is the
\* fetch's last and fetch_html returns that text; an attempt that received
\* status 200 but failed to read the body is handled like a transport error:
\* before the last attempt the fetch sleeps and tries again, on the last
\* attempt the failure is counted and None is returned.
C9_ReadThenReturn ==
    \A t \in DOMAIN tasks :
        \A i \in 1..Len(tasks[t].hist) :
            /\ tasks[t].hist[i] \in {"ok", "empty"} =>
                  /\ i = Len(tasks[t].hist)
                  /\ tasks[t].pc \notin {"get", "sleep"}
                  /\ tasks[t].fetched /\ ~tasks[t].none
            /\ (tasks[t].hist[i] = "bodyerr" /\ i < max_retries) =>
                  /\ Len(tasks[t].delays) >= i /\ tasks[t].delays[i] = i
                  /\ \/ tasks[t].pc = "sleep" /\ Len(tasks[t].hist) = i
                     \/ tasks[t].pc = "get" /\ tasks[t].attempt = i /\ Len(tasks[t].hist) = i
                     \/ tasks[t].pc = "cancelled" /\ Len(tasks[t].hist) = i
                     \/ Len(tasks[t].hist) > i
            /\ (tasks[t].hist[i] = "bodyerr" /\ i = max_retries) =>
                  /\ i = Len(tasks[t].hist)
                  /\ tasks[t].fails = 1
                  /\ tasks[t].fetched /\ tasks[t].none
                  /\ tasks[t].pc = "done"

\* C9 witness: reading the body failed, the fetch tried again, read the text
\* and returned.
C9_Witness ==
    \E t \in DOMAIN tasks :
        /\ tasks[t].hist = <<"bodyerr", "ok">>
        /\ tasks[t].delays = <<1>>
        /\ tasks[t].pc = "done"

\* The links to domain's own host found on url, once url was fetched with
\* status 200 and its text read
FoundLinks(url, domain) ==
    IF \E t \in DOMAIN tasks :
          /\ tasks[t].url = url
          /\ tasks[t].hist # <<>>
          /\ tasks[t].hist[Len(tasks[t].hist)] = "ok"
    THEN { v \in Links[url].urls : Same[v][domain] }
    ELSE {}

ReachStep(S, domain) == S \cup UNION { FoundLinks(u, domain) : u \in S }

\* The URLs reachable from S through links found on fetched pages
RECURSIVE ReachFrom(_, _)
ReachFrom(S, domain) ==
    IF ReachStep(S, domain) = S THEN S ELSE ReachFrom(ReachStep(S, domain), domain)

\* C10: once every top-level task has finished and main has gone on, every
\* URL of a seed's host that is reachable from the seed through links found on
\* pages fetched with status 200 is in visited_urls.
C10_CrawlComplete ==
    mainpc \in {"save", "done", "crashed"} =>
        \A i \in DOMAIN domains :
            ReachFrom({seed_url(domains[i])}, domains[i]) \subseteq visited_urls

\* The product URLs recorded for domain d (a defaultdict has no entry before
\* the first add)
Recorded(d) == IF d \in DOMAIN product_urls THEN product_urls[d] ELSE {}

\* The fetch of task t ended with status 200 and a body, empty or not
GotBody(t) ==
    /\ tasks[t].claimed
    /\ tasks[t].hist # <<>>
    /\ tasks[t].hist[Len(tasks[t].hist)] \in {"ok", "empty"}

\* C11: when the run has ended, the URLs recorded for a domain are exactly
\* the URLs claimed by that domain's crawl whose fetch returned status 200 with
\* a body, the empty body included, and which is_product_url accepts (so no URL
\* whose fetch failed or answered another status is recorded); adding a
\* recorded URL again changes nothing.
C11_ProductRecording ==
    RunEnded =>
        \A d \in AllDomains :
            /\ Recorded(d) =
                  { tasks[t].url :
                      t \in { x \in DOMAIN tasks :
                                /\ tasks[x].domain = d
                                /\ GotBody(x)
                                /\ Product[tasks[x].url] } }
            /\ \A u \in Recorded(d) : AddProduct(product_urls, d, u) = product_urls

\* C12: the report written carries the value of failed_urls, and its products
\* map has an entry for a domain exactly when a product URL was recorded for
\* it (a seed domain without product URLs has none); the entry lists every
\* recorded URL of the domain once and nothing else.
C12_ReportShape ==
    results.written =>
        /\ results.failed_urls = failed_urls
        /\ DOMAIN results.products \subseteq Range(domains)
        /\ \A d \in Range(domains) :
              /\ d \in DOMAIN results.products <=> Recorded(d) # {}
              /\ d \in DOMAIN results.products =>
                    /\ Range(results.products[d]) = Recorded(d)
                    /\ Len(results.products[d]) = Cardinality(Recorded(d))

\* C12 witness: the report has an entry for the second shop, none for the
\* first, whose seed fetch failed terminally, and a failure count of 1.
C12_Witness ==
    /\ results.written
    /\ results.failed_urls = 1
    /\ DOMAIN results.products = {DomB}
    /\ results.products[DomB] = << seed_url(DomB) \o <<"/","p","r","o","d","u","c","t","s">> >>
    /\ \E t \in TopTasks : tasks[t].domain = DomA /\ Exhausted(t)

\* The tasks that have not finished
Unfinished == { t \in DOMAIN tasks : tasks[t].pc \notin Final }

ReportLast ==
    /\ [](results.written => \A t \in DOMAIN tasks : tasks[t].pc = "done")
    /\ [][results.written =>
             UNCHANGED << results, visited_urls, product_urls, failed_urls >>]_vars

\* C14: the report is written exactly once: it is written, then when every
\* top-level task and every task created below it has returned and no task is
\* in flight, and afterwards the report, visited_urls, product_urls and
\* failed_urls stay as they are.
C14_ReportOrdering == <>results.written /\ ReportLast

\* Task t runs its first step in this step, with its URL already visited
StartsVisited(t) ==
    /\ tasks[t].pc = "new"
    /\ tasks[t].url \in visited_urls
    /\ tasks'[t].pc \notin {"new", "cancelled"}

\* C15: a crawl_url call that finds its URL in visited_urls when it starts
\* returns in that very step: it issues no GET, creates no task, and leaves
\* visited_urls, product_urls, failed_urls, total_urls_crawled and the
\* progress log as they were.
C15_VisitedNoOp ==
    [][\A t \in DOMAIN tasks :
          StartsVisited(t) =>
              /\ tasks' = [tasks EXCEPT ![t].pc = "done"]
              /\ ~tasks'[t].claimed /\ tasks'[t].hist = <<>> /\ tasks'[t].spawned = {}
              /\ UNCHANGED << visited_urls, product_urls, failed_urls,
                              total_urls_crawled, progress, results >>]_vars

\* C15 witness: a child task, created while its URL was not visited, found it
\* visited when it started and has returned without a GET; the URL was
\* claimed by another task.
C15_Witness ==
    \E t, o \in DOMAIN tasks :
        /\ tasks[t].parent # 0
        /\ tasks[t].pc = "done"
        /\ ~tasks[t].claimed /\ tasks[t].hist = <<>>
        /\ o # t /\ tasks[o].url = tasks[t].url /\ tasks[o].claimed
        /\ tasks[o].parent # tasks[t].parent

\* C16: in every step visited_urls keeps its elements, product_urls keeps its
\* entries and each entry keeps its elements, and failed_urls does not
\* decrease.
C16_Monotonic ==
    [][/\ visited_urls \subseteq visited_urls'
       /\ DOMAIN product_urls \subseteq DOMAIN product_urls'
       /\ \A d \in DOMAIN product_urls : product_urls[d] \subseteq product_urls'[d]
       /\ failed_urls' >= failed_urls]_vars

\* C16 witness: all three have grown: a seed fetch failed terminally, and the
\* other shop's crawl visited its pages and recorded a product URL.
C16_Witness ==
    /\ failed_urls = 1
    /\ \E d \in DOMAIN product_urls :
          /\ product_urls[d] # {}
          /\ seed_url(d) \in visited_urls
          /\ product_urls[d] \subseteq visited_urls
    /\ Cardinality(visited_urls) >= 4

\* C18: the delays of a fetch are 1, 2, 3, ... in this order: one after each
\* failed attempt but the last possible one, the delay after the attempt with
\* index i being i + 1; there are at most max_retries - 1 of them.
C18_BackoffSchedule ==
    \A t \in DOMAIN tasks :
        /\ tasks[t].delays = [i \in 1..Len(tasks[t].delays) |-> i]
        /\ Len(tasks[t].delays) <= max_retries - 1
        /\ Len(tasks[t].delays) =
              Cardinality({ i \in 1..Len(tasks[t].hist) :
                              tasks[t].hist[i] \in Raising /\ i - 1 < max_retries - 1 })
        /\ tasks[t].pc = "sleep" =>
              /\ Len(tasks[t].hist) = tasks[t].attempt + 1
              /\ tasks[t].delays[Len(tasks[t].delays)] = tasks[t].attempt + 1

\* C18 witness: a fetch failed max_retries times; it slept 1, 2, 3 and 4 and
\* not after the last failure.
C18_Witness ==
    \E t \in DOMAIN tasks :
        /\ Exhausted(t)
        /\ tasks[t].delays = <<1, 2, 3, 4>>
        /\ tasks[t].pc = "done"

\* C19: every recorded product URL is in visited_urls and its netloc is
\* the domain it is recorded for; the sets of two domains share no URL.
C19_ProductsVisitedOwnHost ==
    /\ \A d \in DOMAIN product_urls :
          \A u \in product_urls[d] :
              /\ u \in visited_urls
              /\ Netloc[u].ok /\ Netloc[u].netloc = d
    /\ \A d1, d2 \in DOMAIN product_urls :
          d1 # d2 => product_urls[d1] \cap product_urls[d2] = {}

\* C19 witness: both shops have a recorded product URL.
C19_Witness ==
    /\ DOMAIN product_urls = {DomA, DomB}
    /\ product_urls[DomA] # {} /\ product_urls[DomB] # {}

\* C20: total_urls_crawled is the number of visited URLs, every task that
\* called fetch_html has its URL in visited_urls, and the progress log has one
\* line for each multiple of 100 the counter has reached, in order.
C20_CounterAndProgress ==
    /\ total_urls_crawled = Cardinality(visited_urls)
    /\ \A t \in DOMAIN tasks : tasks[t].claimed => tasks[t].url \in visited_urls
    /\ progress = [i \in 1..(total_urls_crawled \div 100) |-> 100 * i]

\* C20 witness: the crawl of the long site has claimed its 100th URL and the
\* line "Crawled 100 URLs" was logged; the fetch of that URL has not answered.
C20_Witness ==
    /\ total_urls_crawled = 100
    /\ progress = <<100>>
    /\ \E t \in DOMAIN tasks :
          /\ tasks[t].url = seed_url(DomD) \o ChainPath(99)
          /\ tasks[t].pc = "get" /\ tasks[t].hist = <<>>

\* The crawl_url calls that have a child task in flight
Frames == { t \in DOMAIN tasks : tasks[t].kids \cap Unfinished # {} }

\* C17: the cap is one per call and nothing else limits the run: every
\* unfinished task that is not top-level is in flight in the batch of the call
\* that created it, each call has at most 11 of them, and so the number of
\* unfinished tasks is limited only by 11 for each call with children in
\* flight, on top of the top-level tasks.
C17_CapPerFrameOnly ==
    /\ \A t \in Unfinished :
          tasks[t].parent # 0 => t \in tasks[tasks[t].parent].kids
    /\ \A f \in Frames : Cardinality(tasks[f].kids \cap Unfinished) <= 11
    /\ Cardinality(Unfinished)
          <= Cardinality(TopTasks \cap Unfinished) + 11 * Cardinality(Frames)

\* C17 witness: more than 11 tasks are unfinished at once, the children of
\* several calls, none of which has more than 11 in flight.
C17_Witness ==
    /\ Cardinality(Unfinished) > 11
    /\ Cardinality(Frames) >= 2
    /\ \E f \in Frames : Cardinality(tasks[f].kids \cap Unfinished) = 11
    /\ \E f \in Frames : Cardinality(tasks[f].kids \cap Unfinished) = 1

====
